---- MODULE Spec2Model ----
(***************************************************************************)
(* Omni Source CSV formatter (src/app.py): column detection, date and      *)
(* accounting-number normalisation, and the process_dataframe pipeline.    *)
(*                                                                         *)
(* Text is a sequence of one-character strings, so that lower(), strip(),  *)
(* replace(), the regular expression and the strptime formats are computed *)
(* character by character.  A cell is either missing (NaN) or carries the  *)
(* text str() gives for it, which is all the code reads of a cell.         *)
(***************************************************************************)
EXTENDS Integers, Sequences, FiniteSets, TLC

VARIABLES
    pc,         \* position of the call being made
    cols,       \* _pick_column: list(df.columns)
    candidates, \* _pick_column: the alias list
    picked,     \* _pick_column: the value returned
    val,        \* parse_date_value: the raw cell
    written,    \* the calendar date and format val was written from (or Null)
    parsed,     \* parse_date_value: the value returned
    rendered,   \* _format_date_series: the text of the parsed date
    x,          \* to_numeric_value: the raw cell
    num,        \* to_numeric_value: the value returned
    df,         \* process_dataframe: the input table
    debug,      \* process_dataframe: the local diagnostics dict
    balance,    \* process_dataframe: the numeric balance column
    out,        \* process_dataframe: the local output frame
    raised,     \* process_dataframe: the exception raised (or Null)
    ret         \* process_dataframe: the tuple returned (or Null)

vars == <<pc, cols, candidates, picked, val, written, parsed, rendered, x, num,
          df, debug, balance, out, raised, ret>>

Null == [kind |-> "null"]

(***************************************************************************)
(* Bounds of the model.                                                    *)
(***************************************************************************)
MaxCols == 3        \* headers in a list given to _pick_column
MaxNumLen == 4      \* characters in a generated numeric cell
MaxIdLen == 7       \* characters in a generated customer_id cell
MaxRows == 2        \* rows in a generated table
MaxTableCols == 4   \* columns in a generated table

(***************************************************************************)
(* Text helpers: str.lower, str.strip, str.replace, the `in` operator.     *)
(***************************************************************************)
UpperChars == <<"A","B","C","D","E","F","G","H","I","J","K","L","M",
                "N","O","P","Q","R","S","T","U","V","W","X","Y","Z">>
LowerChars == <<"a","b","c","d","e","f","g","h","i","j","k","l","m",
                "n","o","p","q","r","s","t","u","v","w","x","y","z">>
Whitespace == {" ", "\t", "\n", "\r"}
DigitChars == <<"0","1","2","3","4","5","6","7","8","9">>
Digits == {DigitChars[i] : i \in 1..Len(DigitChars)}

LowerOf ==
    [c \in {UpperChars[i] : i \in 1..Len(UpperChars)} |->
        LowerChars[CHOOSE i \in 1..Len(UpperChars) : UpperChars[i] = c]]
LowerChar(c) == IF c \in DOMAIN LowerOf THEN LowerOf[c] ELSE c

Lower(s) == [i \in 1..Len(s) |-> LowerChar(s[i])]

RECURSIVE LStrip(_)
LStrip(s) == IF s # <<>> /\ Head(s) \in Whitespace THEN LStrip(Tail(s)) ELSE s
RECURSIVE RStrip(_)
RStrip(s) ==
    IF s # <<>> /\ s[Len(s)] \in Whitespace
    THEN RStrip(SubSeq(s, 1, Len(s) - 1)) ELSE s
Strip(s) == RStrip(LStrip(s))

RECURSIVE Remove(_, _)
Remove(s, c) ==
    IF s = <<>> THEN <<>>
    ELSE IF Head(s) = c THEN Remove(Tail(s), c)
         ELSE <<Head(s)>> \o Remove(Tail(s), c)

Contains(sub, s) ==
    LET a == sub
        b == s
    IN  \E i \in 0..(Len(b) - Len(a)) : SubSeq(b, i + 1, i + Len(a)) = a

StartsWith(s, p) == Len(s) >= Len(p) /\ SubSeq(s, 1, Len(p)) = p
EndsWith(s, p) == Len(s) >= Len(p) /\ SubSeq(s, Len(s) - Len(p) + 1, Len(s)) = p

(***************************************************************************)
(* Cells.  pd.isna(cell) is the missing marker; str(cell) is its text,     *)
(* "nan" for a missing one.                                                *)
(***************************************************************************)
NaCell == [kind |-> "na", s |-> <<>>]
Text(s) == [kind |-> "str", s |-> s]
IsNa(cell) == cell.kind = "na"
Str(cell) == IF IsNa(cell) THEN <<"n","a","n">> ELSE cell.s

(***************************************************************************)
(* Column detection.                                                       *)
(***************************************************************************)
CUST_ID_COL_CANDIDATES == << <<"c","u","s","t","o","m","e","r","_","i","d">> >>
TRANS_NO_COL_CANDIDATES ==
    << <<"t","r","a","n","s","a","c","t","i","o","n","_","n","u","m","b","e","r">> >>
DATE_COL_CANDIDATES == << <<"d","a","t","e">> >>
BALANCE_COL_CANDIDATES == << <<"b","a","l","a","n","c","e">> >>

None == [kind |-> "none", s |-> <<>>]

\* lower_map = {c.lower().strip(): c for c in cols}: a later header replaces
\* an earlier one with the same key, so lower_map[key] is the last such header.
RECURSIVE LowerMapLast(_, _, _)
LowerMapLast(cs, key, i) ==
    IF i = 0 THEN 0
    ELSE IF Strip(Lower(cs[i])) = key THEN i
    ELSE LowerMapLast(cs, key, i - 1)
LowerMapHas(cs, key) == LowerMapLast(cs, key, Len(cs)) # 0
LowerMapGet(cs, key) == cs[LowerMapLast(cs, key, Len(cs))]

\* for cand in candidates: if key in lower_map
ExactHit(cs, cands, k) == LowerMapHas(cs, Strip(Lower(cands[k])))
RECURSIVE ExactFrom(_, _, _)
ExactFrom(cs, cands, k) ==
    IF k > Len(cands) THEN 0
    ELSE IF ExactHit(cs, cands, k) THEN k
    ELSE ExactFrom(cs, cands, k + 1)
FirstExact(cs, cands) == ExactFrom(cs, cands, 1)

\* for cand in candidates: if cand.lower().replace(" ", "") in low
SubstringHit(c, cands) ==
    \E k \in 1..Len(cands) :
        Contains(Remove(Lower(cands[k]), " "), Remove(Lower(c), " "))
RECURSIVE SubstringFrom(_, _, _)
SubstringFrom(cs, cands, i) ==
    IF i > Len(cs) THEN 0
    ELSE IF SubstringHit(cs[i], cands) THEN i
    ELSE SubstringFrom(cs, cands, i + 1)
FirstSubstring(cs, cands) == SubstringFrom(cs, cands, 1)
RECURSIVE SubstringBack(_, _, _)
SubstringBack(cs, cands, i) ==
    IF i = 0 THEN 0
    ELSE IF SubstringHit(cs[i], cands) THEN i
    ELSE SubstringBack(cs, cands, i - 1)

\* A plausible slip: the first loop returns the alias instead of the header.
PickColumnReturnsAlias(cs, cands) ==
    LET k == FirstExact(cs, cands)
        i == FirstSubstring(cs, cands)
    IN  IF k # 0 THEN Text(Strip(Lower(cands[k])))
        ELSE IF i # 0 THEN Text(cs[i])
        ELSE None

\* A plausible slip: the substring loop keeps the last hit, not the first.
PickColumnLastSubstring(cs, cands) ==
    LET k == FirstExact(cs, cands)
        i == SubstringBack(cs, cands, Len(cs))
    IN  IF k # 0 THEN Text(LowerMapGet(cs, Strip(Lower(cands[k]))))
        ELSE IF i # 0 THEN Text(cs[i])
        ELSE None

\* A plausible slip: the substring loop runs first.
PickColumnSubstringFirst(cs, cands) ==
    LET k == FirstExact(cs, cands)
        i == FirstSubstring(cs, cands)
    IN  IF i # 0 THEN Text(cs[i])
        ELSE IF k # 0 THEN Text(LowerMapGet(cs, Strip(Lower(cands[k]))))
        ELSE None

_pick_column(cs, cands) ==
    LET k == FirstExact(cs, cands)
        i == FirstSubstring(cs, cands)
    IN  IF k # 0 THEN Text(LowerMapGet(cs, Strip(Lower(cands[k]))))
        ELSE IF i # 0 THEN Text(cs[i])
        ELSE None

(***************************************************************************)
(* Date normalisation: datetime.strptime over the six formats, then the    *)
(* lenient parser, then strftime("%d/%m/%Y").                              *)
(***************************************************************************)
NaT == [kind |-> "nat", y |-> 0, m |-> 0, d |-> 0]
Date(y, m, d) == [kind |-> "date", y |-> y, m |-> m, d |-> d]

DigitVal(c) == (CHOOSE i \in 1..Len(DigitChars) : DigitChars[i] = c) - 1

RECURSIVE IntOf(_)
IntOf(ds) ==
    IF ds = <<>> THEN 0
    ELSE IntOf(SubSeq(ds, 1, Len(ds) - 1)) * 10 + DigitVal(ds[Len(ds)])

RECURSIVE Split(_, _)
Split(s, sep) ==
    IF \E i \in 1..Len(s) : s[i] = sep
    THEN LET i == CHOOSE i \in 1..Len(s) :
                     s[i] = sep /\ \A j \in 1..(i - 1) : s[j] # sep
         IN  <<SubSeq(s, 1, i - 1)>> \o Split(SubSeq(s, i + 1, Len(s)), sep)
    ELSE <<s>>

\* The regular expressions strptime builds for %d, %m and %Y.
MatchesDay(p) ==
    \/ Len(p) = 2 /\ p[1] = "3" /\ p[2] \in {"0", "1"}
    \/ Len(p) = 2 /\ p[1] \in {"1", "2"} /\ p[2] \in Digits
    \/ Len(p) = 2 /\ p[1] = "0" /\ p[2] \in Digits \ {"0"}
    \/ Len(p) = 1 /\ p[1] \in Digits \ {"0"}
    \/ Len(p) = 2 /\ p[1] = " " /\ p[2] \in Digits \ {"0"}
MatchesMonth(p) ==
    \/ Len(p) = 2 /\ p[1] = "1" /\ p[2] \in {"0", "1", "2"}
    \/ Len(p) = 2 /\ p[1] = "0" /\ p[2] \in Digits \ {"0"}
    \/ Len(p) = 1 /\ p[1] \in Digits \ {"0"}
MatchesYear(p) == Len(p) = 4 /\ \A i \in 1..4 : p[i] \in Digits

IsLeap(y) == (y % 4 = 0 /\ y % 100 # 0) \/ y % 400 = 0
DaysIn(y, m) ==
    IF m = 2 THEN (IF IsLeap(y) THEN 29 ELSE 28)
    ELSE IF m \in {4, 6, 9, 11} THEN 30 ELSE 31

\* fmts: the separator and the order of the three directives.
fmts == << [sep |-> "/", d |-> 1, m |-> 2, y |-> 3],
           [sep |-> "-", d |-> 1, m |-> 2, y |-> 3],
           [sep |-> "-", d |-> 3, m |-> 2, y |-> 1],
           [sep |-> "/", d |-> 2, m |-> 1, y |-> 3],
           [sep |-> "/", d |-> 3, m |-> 2, y |-> 1],
           [sep |-> ".", d |-> 1, m |-> 2, y |-> 3] >>

\* A plausible slip: month/day/year tried before day/month/year.
fmtsMonthFirst == << fmts[4], fmts[2], fmts[3], fmts[1], fmts[5], fmts[6] >>

\* datetime.strptime(s, fmt).date(), NaT standing for the ValueError.
Strptime(s, fmt) ==
    LET ps == Split(s, fmt.sep)
    IN  IF /\ Len(ps) = 3
           /\ MatchesDay(ps[fmt.d])
           /\ MatchesMonth(ps[fmt.m])
           /\ MatchesYear(ps[fmt.y])
        THEN LET y == IntOf(ps[fmt.y])
                 m == IntOf(ps[fmt.m])
                 d == IntOf(Remove(ps[fmt.d], " "))
             IN  IF y >= 1 /\ d <= DaysIn(y, m) THEN Date(y, m, d) ELSE NaT
        ELSE NaT

\* pd.to_datetime(s, dayfirst=True, errors="coerce") is library code outside
\* src/: for a text no strict format accepts it yields NaT or some date.
LenientDates == {Date(2000, 12, 31)}
to_datetime(s) == {NaT} \cup LenientDates

StrictParses(s, fs) == \E k \in 1..Len(fs) : Strptime(s, fs[k]) # NaT
FirstStrict(s, fs) ==
    Strptime(s, fs[CHOOSE k \in 1..Len(fs) :
                      /\ Strptime(s, fs[k]) # NaT
                      /\ \A j \in 1..(k - 1) : Strptime(s, fs[j]) = NaT])

ParseWith(v, fs) ==
    IF IsNa(v) THEN {NaT}
    ELSE LET s == Strip(Str(v))
         IN  IF StrictParses(s, fs) THEN {FirstStrict(s, fs)} ELSE to_datetime(s)

parse_date_valueMonthFirst(v) == ParseWith(v, fmtsMonthFirst)

\* The set of values parse_date_value(v) can return.
parse_date_value(v) == ParseWith(v, fmts)

DigitAt(n, p) == DigitChars[((n \div p) % 10) + 1]
Digits2(n) == <<DigitAt(n, 10), DigitAt(n, 1)>>
Digits4(n) == <<DigitAt(n, 1000), DigitAt(n, 100)>> \o Digits2(n)

\* d.strftime("%d/%m/%Y") if pd.notna(d) else ""
strftime(d) ==
    IF d = NaT THEN <<>>
    ELSE Digits2(d.d) \o <<"/">> \o Digits2(d.m) \o <<"/">> \o Digits4(d.y)

(***************************************************************************)
(* Numeric normalisation.  A number is a decimal m * 10^-f with no trailing *)
(* zero in its fraction, so that equal numbers are equal values; the       *)
(* missing value stands for both pd.NA and the NaN that float() of a       *)
(* coerced value gives, which astype("Float64") makes the same.            *)
(***************************************************************************)
NA == [kind |-> "na", m |-> 0, f |-> 0]
RECURSIVE Num(_, _)
Num(m, f) ==
    IF f > 0 /\ m % 10 = 0 THEN Num(m \div 10, f - 1)
    ELSE [kind |-> "num", m |-> m, f |-> f]

\* float(s) for decimal text: surrounding whitespace, a sign, digits with at
\* most one point and at least one digit.  NA stands for the ValueError.
float(s) ==
    LET t == Strip(s)
        signed == t # <<>> /\ t[1] \in {"+", "-"}
        body == IF signed THEN Tail(t) ELSE t
        ps == Split(body, ".")
        ip == ps[1]
        fp == IF Len(ps) = 2 THEN ps[2] ELSE <<>>
    IN  IF /\ Len(ps) <= 2
           /\ \A i \in 1..Len(ip) : ip[i] \in Digits
           /\ \A i \in 1..Len(fp) : fp[i] \in Digits
           /\ Len(ip) + Len(fp) >= 1
        THEN LET mag == IntOf(ip \o fp)
             IN  Num(IF signed /\ t[1] = "-" THEN 0 - mag ELSE mag, Len(fp))
        ELSE NA

\* A plausible slip: the parentheses are dropped but no sign is prepended.
to_numeric_valueNoSign(c) ==
    IF IsNa(c) \/ Strip(Str(c)) = <<>> THEN NA
    ELSE LET s == Remove(Remove(Str(c), ","), " ")
             t == IF StartsWith(s, <<"(">>) /\ EndsWith(s, <<")">>)
                  THEN SubSeq(s, 2, Len(s) - 1) ELSE s
         IN  float(t)

\* float(s), else float(pd.to_numeric(s, errors="coerce")): the coercion
\* gives NaN for the decimal text float() rejects.
to_numeric_value(c) ==
    IF IsNa(c) \/ Strip(Str(c)) = <<>> THEN NA
    ELSE LET s == Remove(Remove(Str(c), ","), " ")
             t == IF StartsWith(s, <<"(">>) /\ EndsWith(s, <<")">>)
                  THEN <<"-">> \o SubSeq(s, 2, Len(s) - 1) ELSE s
         IN  float(t)

(***************************************************************************)
(* process_dataframe.                                                      *)
(***************************************************************************)
DetectedKeys == << "customer_id → Debtor Reference",
                   "transaction_number → Document Number",
                   "date → Document Date",
                   "balance → Document Balance" >>
CandidateLists == << CUST_ID_COL_CANDIDATES, TRANS_NO_COL_CANDIDATES,
                     DATE_COL_CANDIDATES, BALANCE_COL_CANDIDATES >>

\* debug["detected_columns"], in the order the dict is built
DetectColumns(columns) ==
    [i \in 1..4 |-> _pick_column(columns, CandidateLists[i])]

RECURSIVE MissingFrom(_, _)
MissingFrom(detected, i) ==
    IF i > 4 THEN <<>>
    ELSE (IF detected[i] = None THEN <<DetectedKeys[i]>> ELSE <<>>)
         \o MissingFrom(detected, i + 1)

\* A plausible slip: only the first absent field is reported.
MissingFirstOnly(detected) ==
    LET all == MissingFrom(detected, 1)
    IN  IF all = <<>> THEN <<>> ELSE <<all[1]>>

\* missing = [k for k, v in debug["detected_columns"].items() if v is None]
Missing(detected) == MissingFrom(detected, 1)

RECURSIVE Join(_, _)
Join(ks, sep) ==
    IF ks = <<>> THEN ""
    ELSE IF Len(ks) = 1 THEN ks[1]
    ELSE ks[1] \o sep \o Join(Tail(ks), sep)

ValueError(missing) ==
    [type |-> "ValueError",
     msg |-> "Missing required columns: " \o Join(missing, ", ")]

\* df[name]: the cells of the column with that header
ColIndex(columns, name) == CHOOSE j \in 1..Len(columns) : columns[j] = name.s
Column(d, name) ==
    LET j == ColIndex(d.columns, name)
    IN  [i \in 1..Len(d.rows) |-> d.rows[i][j]]

\* astype(str).str.extract(r"(\d{6})$").fillna(""): re.search with "$", which
\* matches at the end of the text and also just before a newline ending it.
DebtorReference(c) ==
    LET t == Str(c)
        ends == {Len(t)} \cup (IF t # <<>> /\ t[Len(t)] = "\n"
                                THEN {Len(t) - 1} ELSE {})
        hits == {e \in ends :
                    e >= 6 /\ \A j \in (e - 5)..e : t[j] \in Digits}
    IN  IF hits = {} THEN <<>>
        ELSE LET e == CHOOSE e \in hits : \A f \in hits : e <= f
             IN  SubSeq(t, e - 5, e)

\* A plausible slip: >= in place of >.
TransactionTypeNonNegative(v) == IF v # NA /\ v.m >= 0 THEN "INV" ELSE "CRD"

\* "INV" if pd.notna(v) and v > 0 else "CRD"
TransactionType(v) == IF v # NA /\ v.m > 0 THEN "INV" ELSE "CRD"

\* Series.round(2) on Float64: to the nearest hundredth, ties to even.
Round2(v) ==
    IF v = NA \/ v.f <= 2 THEN v
    ELSE LET unit == 10 ^ (v.f - 2)
             q == v.m \div unit
             r == v.m % unit
         IN  Num(IF 2 * r > unit THEN q + 1
                 ELSE IF 2 * r = unit THEN q + (q % 2)
                 ELSE q, 2)

\* A plausible slip: the filter looks at the rounded balance.
NonzeroRounded(v) == (IF Round2(v) = NA THEN 0 ELSE Round2(v).m) # 0

\* A plausible slip: a missing balance is kept.
NonzeroKeepsMissing(v) == (IF v = NA THEN 1 ELSE v.m) # 0

\* balance.fillna(0) != 0
Nonzero(v) == (IF v = NA THEN 0 ELSE v.m) # 0

RECURSIVE Loc(_, _)
Loc(rows, mask) ==
    IF rows = <<>> THEN <<>>
    ELSE (IF Head(mask) THEN <<Head(rows)>> ELSE <<>>)
         \o Loc(Tail(rows), Tail(mask))

(***************************************************************************)
(* Inputs.                                                                 *)
(***************************************************************************)
\* Sequences of 1..n (or 0..n) elements of S
SeqsUpTo(S, lo, n) == UNION {[1..k -> S] : k \in lo..n}
Distinct(s) == \A i, j \in 1..Len(s) : i # j => s[i] # s[j]

\* Headers as read_csv and read_excel give them: text, no two of them equal.
HeaderPool ==
    { <<"d","a","t","e">>,
      <<"D","a","t","e"," ">>,
      <<"U","p","d","a","t","e">>,
      <<"D","a"," ","t","e">>,
      <<"B","a","l","a","n","c","e"," ","D","a","t","e">>,
      <<"b","a","l","a","n","c","e">>,
      <<"c","u","s","t","o","m","e","r","_","i","d">>,
      <<"C","u","s","t","o","m","e","r"," ","I","D">>,
      <<"T","r","a","n","s","a","c","t","i","o","n","_","N","u","m","b","e","r">>,
      <<" ","D","A","T","E">> }
HeaderLists(n) == {s \in SeqsUpTo(HeaderPool, 0, n) : Distinct(s)}
AliasLists == {CandidateLists[i] : i \in 1..4}

\* Calendar dates and the text of one in each of the six formats.
Years == {1900, 2000, 2023, 2024}
Dates == {Date(y, m, d) : y \in Years, m \in 1..12, d \in 1..31}
ValidDates == {D \in Dates : D.d <= DaysIn(D.y, D.m)}
Unpadded(n) == IF n < 10 THEN <<DigitAt(n, 1)>> ELSE Digits2(n)
WriteDate(D, k, padded) ==
    LET f == fmts[k]
        dd == IF padded THEN Digits2(D.d) ELSE Unpadded(D.d)
        mm == IF padded THEN Digits2(D.m) ELSE Unpadded(D.m)
        piece(i) == IF f.d = i THEN dd ELSE IF f.m = i THEN mm ELSE Digits4(D.y)
    IN  piece(1) \o <<f.sep>> \o piece(2) \o <<f.sep>> \o piece(3)
OtherDateCells ==
    { NaCell, Text(<<>>), Text(<<"x">>),
      Text(<<"3","1","/","0","2","/","2","0","2","4">>),
      Text(<<" ","0","7","/","0","3","/","2","0","2","4"," ">>),
      Text(<<"0","3","/"," ","7","/","2","0","2","4">>),
      Text(<<"0","7","/","0","3","/","2","4">>) }

\* Numeric cells: every text of up to MaxNumLen characters, and the longer
\* examples of the specification.
NumChars == {"0", "5", ".", ",", "(", ")", "-", " ", "x"}
Example1234_50 == <<"(","1",",","2","3","4",".","5","0",")">>
Example100 == <<"1","0","0">>
ExampleMalformed == <<"1"," ","2","3","4",",","x">>
Example1200 == <<"1",",","2","0","0",".","0","0">>
NumCells(n) ==
    {NaCell} \cup {Text(s) : s \in SeqsUpTo(NumChars, 0, n)}
    \cup {Text(Example1234_50), Text(Example100), Text(ExampleMalformed),
          Text(Example1200), Text(<<"0",".","0","0","4">>),
          Text(<<"(","0",".","0","0","4",")">>)}

\* Tables.  The caller reports an empty table itself (df_in.empty) and
\* calls process_dataframe with at least one row and one column.
HCust == <<"c","u","s","t","o","m","e","r","_","i","d">>
HTxn == <<"t","r","a","n","s","a","c","t","i","o","n","_","n","u","m","b","e","r">>
HDate == <<"d","a","t","e">>
HBal == <<"b","a","l","a","n","c","e">>
HBalanceDate == <<"B","a","l","a","n","c","e"," ","D","a","t","e">>
TableHeaderPool ==
    { HCust, HTxn, HBal, HBalanceDate,
      <<"D","a","t","e"," ">>,
      <<"C","u","s","t","o","m","e","r"," ","I","D">> }
Cust123456 == <<"C","U","S","T","0","0","0","1","2","3","4","5","6">>
Cust000001 == <<"C","U","S","T","0","0","0","0","0","0","0","0","1">>
AB12 == <<"A","B","1","2">>
Date07032024 == <<"0","7","/","0","3","/","2","0","2","4">>
Date20240101 == <<"2","0","2","4","-","0","1","-","0","1">>

\* (a) many header lists, one row whose cells all carry the same text
UniformRow(n, c) == [j \in 1..n |-> c]
HeaderTables(n) ==
    { [columns |-> cs, rows |-> <<UniformRow(Len(cs), c)>>] :
        cs \in {s \in SeqsUpTo(TableHeaderPool, 1, n) : Distinct(s)},
        c \in {Text(Example1200), Text(Date07032024)} }

\* (b) the four exact headers, 1..MaxRows rows
Identities ==
    { <<Text(Cust123456), Text(<<" ","T","X","N","1"," ">>), Text(Date07032024)>>,
      <<Text(AB12), Text(<<"T","X","N","2">>), Text(Date20240101)>>,
      <<NaCell, NaCell, Text(<<"x">>)>> }
Balances ==
    { Text(Example1200), Text(<<"0">>), Text(<<"(","5","0",")">>),
      Text(<<"0",".","0","0","4">>), Text(ExampleMalformed), NaCell }
RowPool == { id \o <<b>> : id \in Identities, b \in Balances }
ExactColumns == <<HCust, HTxn, HDate, HBal>>
RowTables(n) ==
    { [columns |-> ExactColumns, rows |-> rs] : rs \in SeqsUpTo(RowPool, 1, n) }

\* (c) one row, every customer_id text of up to MaxIdLen characters
IdChars == {"1", "A", "\n"}
IdTables(n) ==
    { [columns |-> ExactColumns,
       rows |-> << <<Text(s), Text(<<"T","X","N","1">>), Text(Date07032024),
                    Text(Example100)>> >>] :
        s \in SeqsUpTo(IdChars, 0, n) \cup {Cust123456, Cust000001, AB12} }

\* (d) the end-to-end example of the specification
ExampleTable ==
    [columns |-> ExactColumns,
     rows |-> << <<Text(Cust123456), Text(<<"T","X","N","1">>),
                   Text(Date07032024), Text(Example1200)>>,
                 <<Text(Cust000001), Text(<<"T","X","N","2">>),
                   Text(Date20240101), Text(<<"0">>)>> >>]

(***************************************************************************)
(* The calls.                                                              *)
(***************************************************************************)
\* ---- _pick_column -------------------------------------------------------
InitPick ==
    /\ pc = "call"
    /\ cols \in HeaderLists(MaxCols)
    /\ candidates \in AliasLists
    /\ picked = Null
    /\ val = Null /\ written = Null /\ parsed = Null /\ rendered = Null
    /\ x = Null /\ num = Null
    /\ df = Null /\ debug = Null /\ balance = Null /\ out = Null
    /\ raised = Null /\ ret = Null

PickColumn ==
    /\ pc = "call"
    /\ picked' = _pick_column(cols, candidates)
    /\ pc' = "done"
    /\ UNCHANGED <<cols, candidates, val, written, parsed, rendered, x, num,
                   df, debug, balance, out, raised, ret>>

NextPick == PickColumn
SpecPick == InitPick /\ [][NextPick]_vars

\* ---- parse_date_value and the rendering of _format_date_series ----------
InitDate ==
    /\ pc = "call"
    /\ \/ \E D \in ValidDates, k \in 1..Len(fmts), padded \in BOOLEAN :
            /\ written = [date |-> D, fmt |-> k, padded |-> padded]
            /\ val = Text(WriteDate(D, k, padded))
       \/ /\ written = Null
          /\ val \in OtherDateCells
    /\ parsed = Null /\ rendered = Null
    /\ cols = Null /\ candidates = Null /\ picked = Null
    /\ x = Null /\ num = Null
    /\ df = Null /\ debug = Null /\ balance = Null /\ out = Null
    /\ raised = Null /\ ret = Null

FormatDate ==
    /\ pc = "call"
    /\ \E d \in parse_date_value(val) :
          /\ parsed' = d
          /\ rendered' = strftime(d)
    /\ pc' = "done"
    /\ UNCHANGED <<cols, candidates, picked, val, written, x, num,
                   df, debug, balance, out, raised, ret>>

NextDate == FormatDate
SpecDate == InitDate /\ [][NextDate]_vars

\* ---- to_numeric_value ---------------------------------------------------
InitNum ==
    /\ pc = "call"
    /\ x \in NumCells(MaxNumLen)
    /\ num = Null
    /\ cols = Null /\ candidates = Null /\ picked = Null
    /\ val = Null /\ written = Null /\ parsed = Null /\ rendered = Null
    /\ df = Null /\ debug = Null /\ balance = Null /\ out = Null
    /\ raised = Null /\ ret = Null

ToNumeric ==
    /\ pc = "call"
    /\ num' = to_numeric_value(x)
    /\ pc' = "done"
    /\ UNCHANGED <<cols, candidates, picked, val, written, parsed, rendered, x,
                   df, debug, balance, out, raised, ret>>

NextNum == ToNumeric
SpecNum == InitNum /\ [][NextNum]_vars

\* ---- process_dataframe ---------------------------------------------------
Init ==
    /\ pc = "start"
    /\ \/ df \in HeaderTables(MaxTableCols)
       \/ df \in RowTables(MaxRows)
       \/ df \in IdTables(MaxIdLen)
       \/ df = ExampleTable
    /\ debug = Null /\ balance = Null /\ out = Null
    /\ raised = Null /\ ret = Null
    /\ cols = Null /\ candidates = Null /\ picked = Null
    /\ val = Null /\ written = Null /\ parsed = Null /\ rendered = Null
    /\ x = Null /\ num = Null

\* The columns _format_date_series can give for a column of cells.
RECURSIVE DateColumns(_)
DateColumns(cells) ==
    IF cells = <<>> THEN {<<>>}
    ELSE {<<d>> \o rest : d \in parse_date_value(Head(cells)),
                          rest \in DateColumns(Tail(cells))}

\* Lines 89-103 when every field is detected.
Detect ==
    /\ pc = "start"
    /\ LET det == DetectColumns(df.columns)
       IN  /\ Missing(det) = <<>>
           /\ debug' = [detected_columns |-> det]
    /\ pc' = "build"
    /\ UNCHANGED <<cols, candidates, picked, val, written, parsed, rendered,
                   x, num, df, balance, out, raised, ret>>

\* Lines 89-103 when some field is absent: the ValueError leaves the call.
RaiseMissing ==
    /\ pc = "start"
    /\ LET det == DetectColumns(df.columns)
       IN  /\ Missing(det) # <<>>
           /\ debug' = [detected_columns |-> det]
           /\ raised' = ValueError(Missing(det))
    /\ pc' = "raised"
    /\ UNCHANGED <<cols, candidates, picked, val, written, parsed, rendered,
                   x, num, df, balance, out, ret>>

\* Lines 105-123: the balance and the five output columns, one row per input row.
BuildColumns ==
    /\ pc = "build"
    /\ LET det == debug.detected_columns
           n == Len(df.rows)
           custs == Column(df, det[1])
           docs == Column(df, det[2])
           bal == [i \in 1..n |-> to_numeric_value(Column(df, det[4])[i])]
       IN  /\ balance' = bal
           /\ \E dates \in DateColumns(Column(df, det[3])) :
                out' = [i \in 1..n |->
                          [DebtorReference |-> DebtorReference(custs[i]),
                           TransactionType |-> TransactionType(bal[i]),
                           DocumentNumber |-> Strip(Str(docs[i])),
                           DocumentDate |-> strftime(dates[i]),
                           DocumentBalance |-> Round2(bal[i])]]
    /\ pc' = "filter"
    /\ UNCHANGED <<cols, candidates, picked, val, written, parsed, rendered,
                   x, num, df, debug, raised, ret>>

\* Lines 125-132: the rows whose balance is not 0 are kept and returned.
FilterRows ==
    /\ pc = "filter"
    /\ LET mask == [i \in 1..Len(balance) |-> Nonzero(balance[i])]
           removed == Len(balance) - Cardinality({i \in 1..Len(mask) : mask[i]})
       IN  /\ out' = Loc(out, mask)
           /\ debug' = [detected_columns |-> debug.detected_columns,
                        rows_removed_balance_0 |-> removed]
           /\ ret' = [out |-> out', debug |-> debug']
    /\ pc' = "done"
    /\ UNCHANGED <<cols, candidates, picked, val, written, parsed, rendered,
                   x, num, df, balance, raised>>

Next == Detect \/ RaiseMissing \/ BuildColumns \/ FilterRows
Spec == Init /\ [][Next]_vars

(***************************************************************************)
(* Properties of _pick_column (SpecPick).                                  *)
(***************************************************************************)
Range(s) == {s[i] : i \in 1..Len(s)}
Aliases == Range(candidates)
EqualsAlias(h) == \E a \in Aliases : Strip(Lower(h)) = Strip(Lower(a))
HoldsAlias(h) ==
    \E a \in Aliases : Contains(Remove(Lower(a), " "), Remove(Lower(h), " "))
HeadersHoldingAlias == {i \in 1..Len(cols) : HoldsAlias(cols[i])}
SomeHeaderEqualsAlias == \E i \in 1..Len(cols) : EqualsAlias(cols[i])

\* C4: when some header equals a candidate alias after lower-casing and
\* trimming, _pick_column returns such a header in its original spelling:
\* a header of the table that equals the alias once normalised, wherever it
\* stands, and not a header that only contains the alias.
C4_ExactMatchWins ==
    (pc = "done" /\ SomeHeaderEqualsAlias)
        => /\ picked.kind = "str"
           /\ picked.s \in Range(cols)
           /\ EqualsAlias(picked.s)

\* The exactly-matching header stands last, in another spelling than the
\* alias, behind a header that only contains the alias.
C4_Witness ==
    /\ pc = "done"
    /\ Len(cols) >= 2
    /\ HoldsAlias(cols[1]) /\ ~EqualsAlias(cols[1])
    /\ EqualsAlias(cols[Len(cols)]) /\ cols[Len(cols)] \notin Aliases
    /\ picked = Text(cols[Len(cols)])

FirstHolderPicked ==
    \E i \in HeadersHoldingAlias :
        /\ \A j \in HeadersHoldingAlias : i <= j
        /\ picked = Text(cols[i])

\* C5 as stated: whenever several headers contain a candidate alias, the
\* first of them in table order is returned.
C5_Original ==
    (pc = "done" /\ Cardinality(HeadersHoldingAlias) >= 2) => FirstHolderPicked

\* C5 as amended: whenever several headers contain a candidate alias and no
\* header equals an alias after lower-casing and trimming, the first of them
\* in table order is returned.
C5_FirstSubstringWins ==
    (pc = "done" /\ Cardinality(HeadersHoldingAlias) >= 2 /\ ~SomeHeaderEqualsAlias)
        => FirstHolderPicked

C5_Witness ==
    /\ pc = "done"
    /\ Cardinality(HeadersHoldingAlias) >= 2
    /\ ~SomeHeaderEqualsAlias
    /\ ~HoldsAlias(cols[1])
    /\ FirstHolderPicked

(***************************************************************************)
(* Properties of parse_date_value and the rendering (SpecDate).            *)
(***************************************************************************)
DDMMYYYY(D) == WriteDate(D, 1, TRUE)
\* The place of month/day/year among the six formats.
MonthDayYear ==
    CHOOSE k \in 1..Len(fmts) : fmts[k] = [sep |-> "/", d |-> 2, m |-> 1, y |-> 3]
ReadDayFirst(w) == w.fmt = MonthDayYear /\ w.date.d <= 12 /\ w.date.d # w.date.m

\* C6 as stated: a valid date written in any of the six formats is rendered
\* as the DD/MM/YYYY text of that date.
C6_Original ==
    (pc = "done" /\ written # Null) => rendered = DDMMYYYY(written.date)

\* C6 as amended: a valid date of a four-digit year written in d/m/Y, d-m-Y,
\* Y-m-d, Y/m/d or d.m.Y, or in m/d/Y with a day above 12 or equal to the
\* month, is rendered as the DD/MM/YYYY text of that date; any other m/d/Y
\* text is read day first and rendered with day and month exchanged.
C6_RoundTrip ==
    (pc = "done" /\ written # Null)
        => rendered =
             IF ReadDayFirst(written)
             THEN DDMMYYYY(Date(written.date.y, written.date.d, written.date.m))
             ELSE DDMMYYYY(written.date)

C6_Witness ==
    /\ pc = "done"
    /\ written # Null
    /\ written.fmt = MonthDayYear
    /\ written.date.d > 12
    /\ parsed = written.date
    /\ rendered = DDMMYYYY(written.date)

(***************************************************************************)
(* Properties of to_numeric_value (SpecNum).                               *)
(***************************************************************************)
Squeezed(c) == Remove(Remove(Str(c), ","), " ")
Wrapped(c) == StartsWith(Squeezed(c), <<"(">>) /\ EndsWith(Squeezed(c), <<")">>)
Inner(c) == SubSeq(Squeezed(c), 2, Len(Squeezed(c)) - 1)
Blank(c) == IsNa(c) \/ Strip(Str(c)) = <<>>
Negative(n) == Num(0 - n.m, n.f)
SignedText(s) == s # <<>> /\ s[1] \in {"+", "-"}
UnsignedText(s) == s # <<>> /\ s[1] \in Digits \cup {"."}

NumExamples ==
    /\ x = Text(Example1234_50) => num = Num(0 - 123450, 2)
    /\ x = Text(Example100) => num = Num(100, 0)
    /\ x = Text(<<>>) => num = NA
    /\ x = Text(ExampleMalformed) => num = NA
NumOutsideParentheses ==
    /\ Blank(x) => num = NA
    /\ (~Blank(x) /\ ~Wrapped(x)) => num = float(Squeezed(x))
    /\ num.kind \in {"na", "num"}

\* C8 as stated: blank gives no value; commas and spaces are removed; text
\* wrapped in parentheses is the negative of its inner number; other text is
\* its number or no value; the four examples.
C8_Original ==
    pc = "done"
        => /\ NumExamples
           /\ NumOutsideParentheses
           /\ (~Blank(x) /\ Wrapped(x) /\ float(Inner(x)) # NA)
                 => num = Negative(float(Inner(x)))

\* C8 as amended: as stated, but text wrapped in parentheses is the inner
\* text with a minus sign put before it: the negative of the inner number
\* when the inner text starts with a digit or a point, and no value when the
\* inner text starts with a sign of its own or is no number.
C8_AccountingFormat ==
    pc = "done"
        => /\ NumExamples
           /\ NumOutsideParentheses
           /\ (~Blank(x) /\ Wrapped(x) /\ UnsignedText(Inner(x)))
                 => num = IF float(Inner(x)) # NA
                          THEN Negative(float(Inner(x))) ELSE NA
           /\ (~Blank(x) /\ Wrapped(x) /\ SignedText(Inner(x))) => num = NA
           /\ (~Blank(x) /\ Wrapped(x) /\ float(Inner(x)) = NA) => num = NA

C8_Witness ==
    /\ pc = "done"
    /\ x = Text(Example1234_50)
    /\ num = Num(0 - 123450, 2)

(***************************************************************************)
(* Properties of process_dataframe (Spec).                                 *)
(***************************************************************************)
Succeeded == pc \in {"build", "filter", "done"}
Detected == debug.detected_columns
Absent == {i \in 1..4 : _pick_column(df.columns, CandidateLists[i]) = None}
InputCell(i, f) == df.rows[i][ColIndex(df.columns, Detected[f])]
NormalizedBalance(i) == to_numeric_value(InputCell(i, 4))
Survives(i) == NormalizedBalance(i) # NA /\ NormalizedBalance(i).m # 0
Indices == [i \in 1..Len(df.rows) |-> i]
Survivors == SelectSeq(Indices, Survives)

\* C1: the returned rows are the input rows whose normalized balance is
\* present and not 0, one each and in their order, and rows_removed_balance_0
\* counts the other rows, so that both add up to the input row count.
C1_RowsFiltered ==
    pc = "done"
        => /\ Len(ret.out) = Len(Survivors)
           /\ \A k \in 1..Len(ret.out) :
                /\ ret.out[k].DocumentNumber = Strip(Str(InputCell(Survivors[k], 2)))
                /\ ret.out[k].DebtorReference = DebtorReference(InputCell(Survivors[k], 1))
                /\ ret.out[k].DocumentBalance = Round2(NormalizedBalance(Survivors[k]))
           /\ ret.debug.rows_removed_balance_0
                = Cardinality({i \in 1..Len(df.rows) : ~Survives(i)})
           /\ Len(ret.out) + ret.debug.rows_removed_balance_0 = Len(df.rows)

\* Two rows, the first with an unparseable balance: the second is returned.
C1_Witness ==
    /\ pc = "done"
    /\ Len(df.rows) = 2
    /\ NormalizedBalance(1) = NA /\ InputCell(1, 4) # NaCell
    /\ Len(ret.out) = 1
    /\ ret.out[1].DocumentNumber = Strip(Str(InputCell(2, 2)))
    /\ ret.debug.rows_removed_balance_0 = 1

\* C2: for every row, Transaction Type is "INV" exactly when the normalized
\* balance is present and above 0, and "CRD" otherwise.
C2_TransactionType ==
    pc = "filter"
        => \A i \in 1..Len(df.rows) :
              /\ out[i].TransactionType \in {"INV", "CRD"}
              /\ out[i].TransactionType = "INV"
                    <=> (NormalizedBalance(i) # NA /\ NormalizedBalance(i).m > 0)

C2_Witness ==
    /\ pc = "filter"
    /\ \E i, j \in 1..Len(df.rows) :
          /\ NormalizedBalance(i) # NA /\ NormalizedBalance(i).m < 0
          /\ out[i].TransactionType = "CRD"
          /\ NormalizedBalance(j) # NA /\ NormalizedBalance(j).m > 0
          /\ out[j].TransactionType = "INV"

IsAbsent(k) == \E i \in Absent : DetectedKeys[i] = k
MessageNamingAbsent ==
    "Missing required columns: " \o Join(SelectSeq(DetectedKeys, IsAbsent), ", ")
FailsNaming(type) ==
    /\ pc = "raised"
    /\ raised = [type |-> type, msg |-> MessageNamingAbsent]
    /\ ret = Null
    /\ ~ENABLED Next

EndsWithSixDigits(s) ==
    Len(s) >= 6 /\ \A j \in (Len(s) - 5)..Len(s) : s[j] \in Digits
LastSix(s) == SubSeq(s, Len(s) - 5, Len(s))

\* C7: Debtor Reference is the last 6 characters of the customer_id text when
\* that text ends with 6 digits, and empty otherwise.
C7_DebtorReference ==
    pc = "filter"
        => \A i \in 1..Len(df.rows) :
              out[i].DebtorReference =
                 IF EndsWithSixDigits(Str(InputCell(i, 1)))
                 THEN LastSix(Str(InputCell(i, 1))) ELSE <<>>

Magnitude(n) == IF n < 0 THEN 0 - n ELSE n
\* |v| <= 0.005
AtMostHalfCent(v) ==
    IF v.f <= 3 THEN Magnitude(v.m) * (10 ^ (3 - v.f)) <= 5
    ELSE Magnitude(v.m) <= 5 * (10 ^ (v.f - 3))

\* C9 as stated: every returned row has a Document Balance that is present
\* and not 0 after rounding to 2 places.
C9_Original ==
    pc = "done"
        => \A k \in 1..Len(ret.out) :
              /\ ret.out[k].DocumentBalance # NA
              /\ ret.out[k].DocumentBalance.m # 0

\* C9 as amended: every returned row has a Document Balance that is present
\* and whose value before rounding is not 0; after rounding it can be 0.00,
\* which happens only for a balance of magnitude at most 0.005, and the rows
\* returned are all the rows whose unrounded balance is not 0.
C9_NonzeroBeforeRounding ==
    pc = "done"
        => /\ Len(ret.out) = Len(Survivors)
           /\ \A k \in 1..Len(ret.out) :
                /\ ret.out[k].DocumentBalance # NA
                /\ ret.out[k].DocumentBalance.m = 0
                      => AtMostHalfCent(NormalizedBalance(Survivors[k]))

C9_Witness ==
    /\ pc = "done"
    /\ \E k \in 1..Len(ret.out) :
          /\ ret.out[k].DocumentBalance = Num(0, 0)
          /\ NormalizedBalance(Survivors[k]).m # 0

\* C10 as stated: on success the four detected columns are pairwise distinct
\* headers of the input table.
C10_Original ==
    Succeeded
        => /\ \A i \in 1..4 : Detected[i].kind = "str" /\ Detected[i].s \in Range(df.columns)
           /\ \A i, j \in 1..4 : i # j => Detected[i] # Detected[j]

\* C10 as amended: on success each of the four detected columns is a header
\* of the input table in its original spelling; they need not be distinct,
\* a header that holds two aliases being resolved for both fields.
C10_DetectedAreHeaders ==
    Succeeded
        => \A i \in 1..4 : Detected[i].kind = "str" /\ Detected[i].s \in Range(df.columns)

C10_Witness ==
    /\ pc = "done"
    /\ Detected[3] = Text(HBalanceDate)
    /\ Detected[4] = Text(HBalanceDate)

====
